---- MODULE Spec2Model ----
(***************************************************************************)
(* The storage command layer of the desktop application (src-tauri):      *)
(* design packs, local projects, learner data and the artifact library,   *)
(* each a set of commands that read a whole JSON file, change the parsed   *)
(* document and write the whole file back.                                 *)
(*                                                                         *)
(* A string is modelled as a Text [fmt, json]: the JSON value it holds     *)
(* and how it was produced (the caller's raw text, serde_json's pretty or  *)
(* compact output, or text that is no JSON at all).  A file is a Text or   *)
(* Missing.  Every command is an operator from the file system and the     *)
(* arguments to the file system it leaves and the result it returns, and   *)
(* an action that applies it, leaving the command and its result in `last` *)
(* and the file system it started from in `pre`.                           *)
(*                                                                         *)
(* The four storage domains keep disjoint files and share no state, so a   *)
(* behaviour issues the commands of one domain, `scope`.  The clock is     *)
(* read once per command; it advances between commands only.              *)
(*                                                                         *)
(* The Ollama manager keeps no file: its commands depend on what the       *)
(* operating system and the local server answer, and start_ollama is a     *)
(* loop of requests and sleeps that takes one step at a time.              *)
(***************************************************************************)
EXTENDS Integers, Sequences, FiniteSets, TLC

VARIABLES
    fs,      \* the application data directory: directories and files
    clock,   \* chrono::Utc::now(), never decreasing
    scope,   \* the storage domain whose commands the behaviour issues
    last,    \* the last command: name, arguments, result
    pre,     \* fs when the last command started
    race,    \* commands in flight at the same time, and the last one to write
    ollama   \* the Ollama manager: the command in progress and what it met

vars == <<fs, clock, scope, last, pre, race, ollama>>

----------------------------------------------------------------------------
(* Bounds *)

MaxClock == 1       \* instants the clock can show: 0..MaxClock
MaxHistory == 2     \* quick-check results kept per learner
MaxCalls == 2       \* commands a concurrent caller issues

\* Ids name files and directories (<artifactId>.json, learners/<learnerId>):
\* they are non-empty file names without path separators.
Ids == {"a", "b"}   \* packId / projectId / learnerId / artifactId values
NoId == "<none>"    \* the identity field is absent or not a string
Bodies == {1, 2}    \* contents of a document besides its id
NoStamp == -1       \* a date member that is absent or null

----------------------------------------------------------------------------
(* Strings and files *)

Raw(j) == [fmt |-> "raw", json |-> j]
Compact(j) == [fmt |-> "compact", json |-> j]
Garbage == [fmt |-> "garbage", json |-> 0]
Missing == [fmt |-> "missing", json |-> 0]
Unit == [fmt |-> "unit", json |-> 0]

\* Path::exists
Exists(file) == file.fmt # "missing"

\* serde_json::from_str succeeds
Parses(text) == text.fmt \in {"raw", "compact", "pretty"}

\* serde_json::to_string_pretty of a Vec<Value>: "[]" when empty
ToStringPrettyVec(arr) ==
    [fmt |-> IF arr = <<>> THEN "compact" ELSE "pretty", json |-> arr]

\* serde_json::to_string_pretty of a Value
ToStringPretty(j) == [fmt |-> "pretty", json |-> j]

\* serde_json::to_string of a Value or of a Vec<&Value>
ToStringCompact(j) == Compact(j)

\* serde_json::from_str::<Vec<Value>>(&content).unwrap_or_else(|_| Vec::new())
ReadVec(content) == IF Parses(content) THEN content.json ELSE <<>>

\* if path.exists() { read and parse as above } else { Vec::new() }
LoadVec(file) == IF Exists(file) THEN ReadVec(file) ELSE <<>>

\* serde_json::from_str::<Value>(&content).unwrap_or_else(|_| default)
ReadValue(content, default) == IF Parses(content) THEN content.json ELSE default

----------------------------------------------------------------------------
(* Results *)

Ok(out) == [ok |-> TRUE, err |-> "", eid |-> NoId, out |-> out]
Err(e, id) == [ok |-> FALSE, err |-> e, eid |-> id, out |-> Unit]

\* What a command leaves: the file system and the value it returns.
Outcome(f, res) == [fs |-> f, res |-> res]

\* A command was run to its end: `id` and `text` are its arguments.
Returns(cmd, id, text, outcome) ==
    /\ fs' = outcome.fs
    /\ last' = [cmd |-> cmd, id |-> id, text |-> text, res |-> outcome.res]
    /\ pre' = fs
    /\ UNCHANGED <<scope, race, ollama>>

\* fs::create_dir_all
MakeDirs(f, names) == [f EXCEPT !.dirs = @ \cup names]

----------------------------------------------------------------------------
(* Array indexes: the linear scans the three array stores repeat *)

HasId(arr, id) == \E i \in 1..Len(arr) : arr[i].id = id

FirstWithId(arr, id) ==
    CHOOSE i \in 1..Len(arr) :
        /\ arr[i].id = id
        /\ \A j \in 1..(i - 1) : arr[j].id # id

\* A variant of Upsert that never looks for the id: it always pushes.
UpsertAlwaysPush(arr, doc) == Append(arr, doc)

\* A variant of Upsert that drops the entry with the id and pushes the new one.
UpsertAtEnd(arr, doc) ==
    Append(SelectSeq(arr, LAMBDA p : p.id # doc.id), doc)

\* for x in v.iter_mut() { if id matches { *x = new; found = true; break } }
\* if !found { v.push(new) }
Upsert(arr, doc) ==
    IF HasId(arr, doc.id)
    THEN [arr EXCEPT ![FirstWithId(arr, doc.id)] = doc]
    ELSE Append(arr, doc)

\* A variant of Retain with the test inverted: it keeps the matching entries.
RetainMatching(arr, id) == SelectSeq(arr, LAMBDA p : p.id = id)

\* v.retain(|p| id of p != id)
Retain(arr, id) == SelectSeq(arr, LAMBDA p : p.id # id)

\* A variant of FindById that answers an empty document when no entry matches.
FindByIdOrEmpty(arr, id) ==
    IF HasId(arr, id)
    THEN Ok(ToStringCompact(arr[FirstWithId(arr, id)]))
    ELSE Ok(Compact(<<>>))

\* for x in v { if id matches { return to_string(&x) } }; Err(not found)
FindById(arr, id) ==
    IF HasId(arr, id)
    THEN Ok(ToStringCompact(arr[FirstWithId(arr, id)]))
    ELSE Err("not found", id)

----------------------------------------------------------------------------
(* Design packs: design-packs/packs.json *)

PackDocs == [id : Ids \cup {NoId}, body : Bodies]
PackInputs == {Raw(d) : d \in PackDocs} \cup {Garbage}

GetDesignPacks(f) ==
    Outcome(f, IF ~Exists(f.packs) THEN Ok(Compact(<<>>)) ELSE Ok(f.packs))

GetDesignPack(f, pack_id) ==
    Outcome(f, IF ~Exists(f.packs) THEN Err("not found", pack_id)
               ELSE FindById(ReadVec(f.packs), pack_id))

SaveDesignPack(f, pack) ==
    LET made == MakeDirs(f, {"design-packs"}) IN
    IF ~Parses(pack) THEN Outcome(made, Err("invalid json", NoId))
    ELSE IF pack.json.id = NoId THEN Outcome(made, Err("missing id", NoId))
    ELSE Outcome([made EXCEPT !.packs =
                      ToStringPrettyVec(Upsert(LoadVec(f.packs), pack.json))],
                 Ok(Unit))

DeleteDesignPack(f, pack_id) ==
    IF ~Exists(f.packs) THEN Outcome(f, Ok(Unit))
    ELSE Outcome([f EXCEPT !.packs =
                      ToStringPrettyVec(Retain(ReadVec(f.packs), pack_id))],
                 Ok(Unit))

get_design_packs ==
    /\ scope = "packs"
    /\ UNCHANGED clock
    /\ Returns("get_design_packs", NoId, Unit, GetDesignPacks(fs))

get_design_pack ==
    /\ scope = "packs"
    /\ UNCHANGED clock
    /\ \E pack_id \in Ids :
         Returns("get_design_pack", pack_id, Unit, GetDesignPack(fs, pack_id))

save_design_pack ==
    /\ scope = "packs"
    /\ UNCHANGED clock
    /\ \E pack \in PackInputs :
         Returns("save_design_pack", IF Parses(pack) THEN pack.json.id ELSE NoId,
                 pack, SaveDesignPack(fs, pack))

delete_design_pack ==
    /\ scope = "packs"
    /\ UNCHANGED clock
    /\ \E pack_id \in Ids :
         Returns("delete_design_pack", pack_id, Unit, DeleteDesignPack(fs, pack_id))

----------------------------------------------------------------------------
(* Local projects: projects/projects.json *)

ProjectTypes == {"learning_path", "quick_create"}

\* artifactIds is absent ("absent"), an array ("array", its items in arts) or
\* some other JSON value ("other", which no input below carries);
\* lastActivityDate and updatedAt are dates or absent.
ProjectDoc(id, type, kind, arts, t) ==
    [id |-> id, type |-> type, artsKind |-> kind, arts |-> arts,
     lastActivityDate |-> t, updatedAt |-> t]

ProjectDocs ==
    {ProjectDoc(id, type, kind, <<>>, NoStamp) :
        id \in Ids \cup {NoId}, type \in ProjectTypes, kind \in {"absent", "array"}}
ProjectInputs == {Raw(d) : d \in ProjectDocs} \cup {Garbage}

\* A variant of AddArtifact that pushes the id whether the array holds it or not.
AddArtifactAlways(project, artifact_id, now) ==
    LET kind == IF project.artsKind = "absent" THEN "array" ELSE project.artsKind
        arts == IF kind = "array" THEN Append(project.arts, artifact_id)
                ELSE project.arts
    IN  [project EXCEPT !.artsKind = kind, !.arts = arts,
                        !.lastActivityDate = now, !.updatedAt = now]

\* obj.entry("artifactIds").or_insert_with(|| Value::Array(Vec::new())), then
\* push the id unless the array contains it; then the two dates are set to now
AddArtifact(project, artifact_id, now) ==
    LET kind == IF project.artsKind = "absent" THEN "array" ELSE project.artsKind
        arts == IF kind = "array" /\ \A i \in 1..Len(project.arts) :
                                        project.arts[i] # artifact_id
                THEN Append(project.arts, artifact_id)
                ELSE project.arts
    IN  [project EXCEPT !.artsKind = kind, !.arts = arts,
                        !.lastActivityDate = now, !.updatedAt = now]

GetLocalProjects(f) ==
    Outcome(f, IF ~Exists(f.projects) THEN Ok(Compact(<<>>)) ELSE Ok(f.projects))

GetLocalProject(f, project_id) ==
    Outcome(f, IF ~Exists(f.projects) THEN Err("not found", project_id)
               ELSE FindById(ReadVec(f.projects), project_id))

SaveLocalProject(f, project) ==
    LET made == MakeDirs(f, {"projects"}) IN
    IF ~Parses(project) THEN Outcome(made, Err("invalid json", NoId))
    ELSE IF project.json.id = NoId THEN Outcome(made, Err("missing id", NoId))
    ELSE Outcome([made EXCEPT !.projects =
                      ToStringPrettyVec(Upsert(LoadVec(f.projects), project.json))],
                 Ok(Unit))

\* A variant of DeleteLocalProject that also drops the library index entries
\* of the project's artifacts.
DeleteLocalProjectWithArtifacts(f, project_id) ==
    LET swept == IF Parses(f.libIndex) /\ f.libIndex.json.kind = "object"
                 THEN [f EXCEPT !.libIndex.json.artifacts =
                           SelectSeq(@, LAMBDA e : e.projectId # project_id)]
                 ELSE f
    IN  IF ~Exists(f.projects) THEN Outcome(swept, Ok(Unit))
        ELSE Outcome([swept EXCEPT !.projects =
                          ToStringPrettyVec(Retain(ReadVec(f.projects), project_id))],
                     Ok(Unit))

DeleteLocalProject(f, project_id) ==
    IF ~Exists(f.projects) THEN Outcome(f, Ok(Unit))
    ELSE Outcome([f EXCEPT !.projects =
                      ToStringPrettyVec(Retain(ReadVec(f.projects), project_id))],
                 Ok(Unit))

GetProjectsByType(f, project_type) ==
    Outcome(f, IF ~Exists(f.projects) THEN Ok(Compact(<<>>))
               ELSE Ok(ToStringCompact(SelectSeq(ReadVec(f.projects),
                                       LAMBDA p : p.type = project_type))))

\* The projects array add_artifact_to_project writes back, computed from the
\* array it read (the project is in it).
WithArtifact(projects, project_id, artifact_id, now) ==
    LET i == FirstWithId(projects, project_id) IN
    [projects EXCEPT ![i] = AddArtifact(projects[i], artifact_id, now)]

\* A variant of AddArtifactToProject that writes the array back before it
\* reports that the project is not there.
AddArtifactToProjectWritesBack(f, project_id, artifact_id, now) ==
    LET projects == LoadVec(f.projects) IN
    IF ~HasId(projects, project_id)
    THEN Outcome([f EXCEPT !.projects = ToStringPrettyVec(projects)],
                 Err("not found", project_id))
    ELSE Outcome([f EXCEPT !.projects = ToStringPrettyVec(
                      WithArtifact(projects, project_id, artifact_id, now))],
                 Ok(Unit))

AddArtifactToProject(f, project_id, artifact_id, now) ==
    IF ~Exists(f.projects) THEN Outcome(f, Err("not found", project_id))
    ELSE LET projects == ReadVec(f.projects) IN
         IF ~HasId(projects, project_id)
         THEN Outcome(f, Err("not found", project_id))
         ELSE Outcome([f EXCEPT !.projects = ToStringPrettyVec(
                           WithArtifact(projects, project_id, artifact_id, now))],
                      Ok(Unit))

get_local_projects ==
    /\ scope = "projects"
    /\ UNCHANGED clock
    /\ Returns("get_local_projects", NoId, Unit, GetLocalProjects(fs))

get_local_project ==
    /\ scope = "projects"
    /\ UNCHANGED clock
    /\ \E project_id \in Ids :
         Returns("get_local_project", project_id, Unit,
                 GetLocalProject(fs, project_id))

save_local_project ==
    /\ scope = "projects"
    /\ UNCHANGED clock
    /\ \E project \in ProjectInputs :
         Returns("save_local_project",
                 IF Parses(project) THEN project.json.id ELSE NoId,
                 project, SaveLocalProject(fs, project))

delete_local_project ==
    /\ scope = "projects"
    /\ UNCHANGED clock
    /\ \E project_id \in Ids :
         Returns("delete_local_project", project_id, Unit,
                 DeleteLocalProject(fs, project_id))

\* The type asked for is reported in last.text.
get_projects_by_type ==
    /\ scope = "projects"
    /\ UNCHANGED clock
    /\ \E project_type \in ProjectTypes \cup {"other"} :
         Returns("get_projects_by_type", NoId, Raw(project_type),
                 GetProjectsByType(fs, project_type))

\* The artifact id is reported in last.text, the project id in last.id.
add_artifact_to_project ==
    /\ scope = "projects"
    /\ \E project_id \in Ids, artifact_id \in Ids, now \in clock..MaxClock :
         /\ clock' = now
         /\ Returns("add_artifact_to_project", project_id, Raw(artifact_id),
                    AddArtifactToProject(fs, project_id, artifact_id, now))

----------------------------------------------------------------------------
(* Learners: learners/profiles.json and, per learner, the directory          *)
(* learners/<learnerId> holding mastery.json and quick-checks.json          *)

ProfileDocs == [id : Ids \cup {NoId}, body : Bodies]
ProfileInputs == {Raw(d) : d \in ProfileDocs} \cup {Garbage}

LearnerScopes == {"profiles", "mastery", "checks"}

\* fs::create_dir_all(learner_dir)
MakeLearnerDir(f, learner_id) ==
    [f EXCEPT !.dirs = @ \cup {"learners"}, !.ldirs = @ \cup {learner_id}]

\* fs::remove_dir_all(learner_dir)
RemoveLearnerDir(f, learner_id) ==
    [f EXCEPT !.ldirs = @ \ {learner_id},
              !.mastery[learner_id] = Missing,
              !.checks[learner_id] = Missing]

GetLearnerProfiles(f) ==
    Outcome(f, IF ~Exists(f.profiles) THEN Ok(Compact(<<>>)) ELSE Ok(f.profiles))

SaveLearnerProfile(f, profile) ==
    LET made == MakeDirs(f, {"learners"}) IN
    IF ~Parses(profile) THEN Outcome(made, Err("invalid json", NoId))
    ELSE IF profile.json.id = NoId THEN Outcome(made, Err("missing id", NoId))
    ELSE Outcome(MakeLearnerDir(
                     [made EXCEPT !.profiles = ToStringPrettyVec(
                          Upsert(LoadVec(f.profiles), profile.json))],
                     profile.json.id),
                 Ok(Unit))

\* A variant of DeleteLearnerProfile that leaves the learner's directory.
DeleteLearnerProfileListOnly(f, learner_id) ==
    Outcome(IF Exists(f.profiles)
            THEN [f EXCEPT !.profiles = ToStringPrettyVec(
                      Retain(ReadVec(f.profiles), learner_id))]
            ELSE f,
            Ok(Unit))

DeleteLearnerProfile(f, learner_id) ==
    LET listed == IF Exists(f.profiles)
                  THEN [f EXCEPT !.profiles = ToStringPrettyVec(
                            Retain(ReadVec(f.profiles), learner_id))]
                  ELSE f
    IN  Outcome(IF learner_id \in f.ldirs
                THEN RemoveLearnerDir(listed, learner_id)
                ELSE listed,
                Ok(Unit))

get_learner_profiles ==
    /\ scope = "profiles"
    /\ UNCHANGED clock
    /\ Returns("get_learner_profiles", NoId, Unit, GetLearnerProfiles(fs))

save_learner_profile ==
    /\ scope = "profiles"
    /\ UNCHANGED clock
    /\ \E profile \in ProfileInputs :
         Returns("save_learner_profile",
                 IF Parses(profile) THEN profile.json.id ELSE NoId,
                 profile, SaveLearnerProfile(fs, profile))

delete_learner_profile ==
    /\ scope \in LearnerScopes
    /\ UNCHANGED clock
    /\ \E learner_id \in Ids :
         Returns("delete_learner_profile", learner_id, Unit,
                 DeleteLearnerProfile(fs, learner_id))

(* Mastery *)

Objs == {"o1", "o2"}    \* objectiveId values
EmptyMap == [o \in {} |-> 0]

\* serde_json Map::insert
MapInsert(m, k, v) == [o \in DOMAIN m \cup {k} |-> IF o = k THEN v ELSE m[o]]

\* A mastery document: "object" has an objectives object, "noobjs" is an
\* object whose objectives member is absent or no object, "scalar" is a JSON
\* value that is no object.
MasteryValue(learner_id, kind, objectives, t) ==
    [learnerId |-> learner_id, kind |-> kind, objectives |-> objectives,
     lastSessionDate |-> t]

\* json!({"learnerId": learner_id, "objectives": {}, "lastSessionDate": null})
DefaultMastery(learner_id) == MasteryValue(learner_id, "object", EmptyMap, NoStamp)

ObjectiveDocs == [id : Objs \cup {NoId}, body : Bodies]
ObjectiveInputs == {Raw(d) : d \in ObjectiveDocs} \cup {Garbage}

MasteryInputs(learner_id) ==
    {Raw(DefaultMastery(learner_id)),
     Raw(MasteryValue(learner_id, "noobjs", EmptyMap, NoStamp)),
     Raw(MasteryValue(NoId, "scalar", EmptyMap, NoStamp)),
     Garbage}

\* insert into the objectives map when there is one; set lastSessionDate
\* when the document is an object
SetObjective(mastery_data, new_mastery, now) ==
    LET put == IF mastery_data.kind = "object"
               THEN [mastery_data EXCEPT !.objectives =
                         MapInsert(@, new_mastery.id, new_mastery)]
               ELSE mastery_data
    IN  IF put.kind # "scalar" THEN [put EXCEPT !.lastSessionDate = now] ELSE put

GetLearnerMastery(f, learner_id) ==
    Outcome(f, IF ~Exists(f.mastery[learner_id])
               THEN Ok(ToStringCompact(DefaultMastery(learner_id)))
               ELSE Ok(f.mastery[learner_id]))

\* A variant of SaveObjectiveMastery that does not ask for an objectiveId.
SaveObjectiveMasteryAnyId(f, learner_id, objective_mastery, now) ==
    LET made == MakeLearnerDir(f, learner_id) IN
    IF ~Parses(objective_mastery) THEN Outcome(made, Err("invalid json", NoId))
    ELSE LET mastery_data ==
                 IF Exists(f.mastery[learner_id])
                 THEN ReadValue(f.mastery[learner_id], DefaultMastery(learner_id))
                 ELSE DefaultMastery(learner_id)
         IN  Outcome([made EXCEPT !.mastery[learner_id] = ToStringPretty(
                          SetObjective(mastery_data, objective_mastery.json, now))],
                     Ok(Unit))

SaveObjectiveMastery(f, learner_id, objective_mastery, now) ==
    LET made == MakeLearnerDir(f, learner_id) IN
    IF ~Parses(objective_mastery) THEN Outcome(made, Err("invalid json", NoId))
    ELSE IF objective_mastery.json.id = NoId
    THEN Outcome(made, Err("missing id", NoId))
    ELSE LET mastery_data ==
                 IF Exists(f.mastery[learner_id])
                 THEN ReadValue(f.mastery[learner_id], DefaultMastery(learner_id))
                 ELSE DefaultMastery(learner_id)
         IN  Outcome([made EXCEPT !.mastery[learner_id] = ToStringPretty(
                          SetObjective(mastery_data, objective_mastery.json, now))],
                     Ok(Unit))

SaveLearnerMastery(f, learner_id, mastery_data) ==
    LET made == MakeLearnerDir(f, learner_id) IN
    IF ~Parses(mastery_data) THEN Outcome(made, Err("invalid json", NoId))
    ELSE Outcome([made EXCEPT !.mastery[learner_id] = mastery_data], Ok(Unit))

get_learner_mastery ==
    /\ scope = "mastery"
    /\ UNCHANGED clock
    /\ \E learner_id \in Ids :
         Returns("get_learner_mastery", learner_id, Unit,
                 GetLearnerMastery(fs, learner_id))

save_objective_mastery ==
    /\ scope = "mastery"
    /\ \E learner_id \in Ids, objective_mastery \in ObjectiveInputs,
          now \in clock..MaxClock :
         /\ clock' = now
         /\ Returns("save_objective_mastery", learner_id, objective_mastery,
                    SaveObjectiveMastery(fs, learner_id, objective_mastery, now))

save_learner_mastery ==
    /\ scope = "mastery"
    /\ UNCHANGED clock
    /\ \E learner_id \in Ids :
         \E mastery_data \in MasteryInputs(learner_id) :
             Returns("save_learner_mastery", learner_id, mastery_data,
                     SaveLearnerMastery(fs, learner_id, mastery_data))

(* Quick checks *)

CheckDocs == [id : Objs \cup {NoId}]
CheckInputs == {Raw(d) : d \in CheckDocs} \cup {Garbage}
NoFilter == "<all>"     \* objective_id: None

GetQuickCheckHistory(f, learner_id, objective_id) ==
    Outcome(f, IF ~Exists(f.checks[learner_id]) THEN Ok(Compact(<<>>))
               ELSE IF objective_id # NoFilter
               THEN Ok(ToStringCompact(SelectSeq(ReadVec(f.checks[learner_id]),
                                       LAMBDA c : c.id = objective_id)))
               ELSE Ok(f.checks[learner_id]))

\* A variant of SaveQuickCheckResult that puts the result in front.
SaveQuickCheckResultInFront(f, learner_id, result) ==
    LET made == MakeLearnerDir(f, learner_id) IN
    IF ~Parses(result) THEN Outcome(made, Err("invalid json", NoId))
    ELSE Outcome([made EXCEPT !.checks[learner_id] = ToStringPrettyVec(
                      <<result.json>> \o LoadVec(f.checks[learner_id]))],
                 Ok(Unit))

SaveQuickCheckResult(f, learner_id, result) ==
    LET made == MakeLearnerDir(f, learner_id) IN
    IF ~Parses(result) THEN Outcome(made, Err("invalid json", NoId))
    ELSE Outcome([made EXCEPT !.checks[learner_id] = ToStringPrettyVec(
                      Append(LoadVec(f.checks[learner_id]), result.json))],
                 Ok(Unit))

\* The objective filter is reported in last.text.
get_quick_check_history ==
    /\ scope = "checks"
    /\ UNCHANGED clock
    /\ \E learner_id \in Ids, objective_id \in Objs \cup {NoFilter} :
         Returns("get_quick_check_history", learner_id, Raw(objective_id),
                 GetQuickCheckHistory(fs, learner_id, objective_id))

\* The history is kept to MaxHistory results.
save_quick_check_result ==
    /\ scope = "checks"
    /\ UNCHANGED clock
    /\ \E learner_id \in Ids, result \in CheckInputs :
         /\ Len(LoadVec(fs.checks[learner_id])) < MaxHistory
         /\ Returns("save_quick_check_result", learner_id, result,
                    SaveQuickCheckResult(fs, learner_id, result))

----------------------------------------------------------------------------
(* Library: library/index.json and library/artifacts/<artifactId>.json *)

ArtifactTypes == {"worksheet", "quiz"}

\* An artifact: its metadata (here its type) and its content (html), which
\* the index entry leaves out.
ArtifactDocs == [id : Ids \cup {NoId}, type : ArtifactTypes, html : Bodies]
ArtifactInputs == {Raw(d) : d \in ArtifactDocs} \cup {Garbage}

\* A JSON member that may be a string: its characters, or no string (the
\* member is absent, null or of another type).
Str(chars) == [str |-> TRUE, chars |-> chars]
NoStr == [str |-> FALSE, chars |-> <<>>]

\* A JSON member that may be an array of strings.
Tags(items) == [arr |-> TRUE, items |-> items]
NoTags == [arr |-> FALSE, items |-> <<>>]

\* v.get(k): a member held as a name (NoId when it is no string), the title
\* or search text, the objectiveTags
StrOf(v, k) == IF k \in DOMAIN v THEN v[k] ELSE NoId
TextOf(v, k) == IF k \in DOMAIN v THEN v[k] ELSE NoStr
TagsOf(v, k) == IF k \in DOMAIN v THEN v[k] ELSE NoTags

\* json!({"artifactId": .., "projectId": .., "type": .., "title": .., ...}):
\* the members search_artifacts reads (jobId and createdAt are left out)
IndexEntry(artifact_value) ==
    [id |-> artifact_value.id,
     projectId |-> StrOf(artifact_value, "projectId"),
     type |-> StrOf(artifact_value, "type"),
     title |-> TextOf(artifact_value, "title"),
     grade |-> StrOf(artifact_value, "grade"),
     subject |-> StrOf(artifact_value, "subject"),
     objectiveTags |-> TagsOf(artifact_value, "objectiveTags"),
     designPackId |-> StrOf(artifact_value, "designPackId")]

\* An index document: "object" has an artifacts array, "noarts" is an object
\* whose artifacts member is absent or no array, "scalar" is a JSON value
\* that is no object.
IndexValue(kind, artifacts, t) ==
    [kind |-> kind, artifacts |-> artifacts, lastUpdated |-> t]

\* json!({"version": 1, "lastUpdated": now, "artifacts": []})
DefaultIndex(now) == IndexValue("object", <<>>, now)

IndexInputs ==
    {Raw(IndexValue("object", <<>>, NoStamp)),
     Raw(IndexValue("noarts", <<>>, NoStamp)),
     Raw(IndexValue("scalar", <<>>, NoStamp)),
     Garbage}

\* if index_path.exists() { parse or default } else { default }
LoadIndex(file, now) ==
    IF Exists(file) THEN ReadValue(file, DefaultIndex(now)) ELSE DefaultIndex(now)

\* index.get("artifacts").and_then(|v| v.as_array())
Artifacts(index) == IF index.kind = "object" THEN index.artifacts ELSE <<>>

\* arr.retain(other ids); arr.push(index_entry), when artifacts is an array;
\* lastUpdated is set when the index is an object
PutEntry(index, artifact_value, now) ==
    LET put == IF index.kind = "object"
               THEN [index EXCEPT !.artifacts =
                         Append(Retain(@, artifact_value.id),
                                IndexEntry(artifact_value))]
               ELSE index
    IN  IF put.kind # "scalar" THEN [put EXCEPT !.lastUpdated = now] ELSE put

\* A variant of DropEntry that only sets lastUpdated.
DropEntryStampOnly(index, artifact_id, now) ==
    IF index.kind # "scalar" THEN [index EXCEPT !.lastUpdated = now] ELSE index

\* arr.retain(other ids), when artifacts is an array; lastUpdated is set when
\* the index is an object
DropEntry(index, artifact_id, now) ==
    LET cut == IF index.kind = "object"
               THEN [index EXCEPT !.artifacts = Retain(@, artifact_id)]
               ELSE index
    IN  IF cut.kind # "scalar" THEN [cut EXCEPT !.lastUpdated = now] ELSE cut

\* A search query: the type to match, or NoId for no criterion.
Queries == {Raw([type |-> t]) : t \in ArtifactTypes \cup {NoId}} \cup {Garbage}

\* char::to_lowercase, over the letters the titles are made of
Lower(c) == IF c = "A" THEN "a" ELSE IF c = "B" THEN "b" ELSE c

\* A variant of ToLowercase that leaves the case as it is.
KeepCase(chars) == chars

\* str::to_lowercase
ToLowercase(chars) == [i \in 1..Len(chars) |-> Lower(chars[i])]

\* str::contains
Contains(hay, needle) ==
    \E k \in 0..(Len(hay) - Len(needle)) :
        SubSeq(hay, k + 1, k + Len(needle)) = needle

EqualityFilters == {"projectId", "grade", "subject", "type", "designPackId"}

\* The closure of filter(): false at the first criterion the entry fails
Matches(artifact, query_value) ==
    /\ \A k \in EqualityFilters :
           StrOf(query_value, k) # NoId => artifact[k] = StrOf(query_value, k)
    /\ StrOf(query_value, "objectiveTag") # NoId =>
           /\ artifact.objectiveTags.arr
           /\ \E i \in 1..Len(artifact.objectiveTags.items) :
                  artifact.objectiveTags.items[i] = StrOf(query_value, "objectiveTag")
    /\ TextOf(query_value, "searchText").str =>
           /\ artifact.title.str
           /\ Contains(ToLowercase(artifact.title.chars),
                       ToLowercase(TextOf(query_value, "searchText").chars))

GetLibraryIndex(f, now) ==
    Outcome(f, IF ~Exists(f.libIndex)
               THEN Ok(ToStringCompact(DefaultIndex(now)))
               ELSE Ok(f.libIndex))

SaveLibraryIndex(f, index) ==
    LET made == MakeDirs(f, {"library"}) IN
    IF ~Parses(index) THEN Outcome(made, Err("invalid json", NoId))
    ELSE Outcome([made EXCEPT !.libIndex = index], Ok(Unit))

GetArtifact(f, artifact_id) ==
    Outcome(f, IF ~Exists(f.artifacts[artifact_id])
               THEN Err("not found", artifact_id)
               ELSE Ok(f.artifacts[artifact_id]))

\* A variant of SaveArtifact that updates the index and writes no artifact file.
SaveArtifactIndexOnly(f, artifact, now) ==
    LET made == MakeDirs(f, {"library", "library/artifacts"}) IN
    IF ~Parses(artifact) THEN Outcome(made, Err("invalid json", NoId))
    ELSE IF artifact.json.id = NoId THEN Outcome(made, Err("missing id", NoId))
    ELSE Outcome([made EXCEPT
                      !.libIndex = ToStringPretty(
                          PutEntry(LoadIndex(f.libIndex, now), artifact.json, now))],
                 Ok(Unit))

SaveArtifact(f, artifact, now) ==
    LET made == MakeDirs(f, {"library", "library/artifacts"}) IN
    IF ~Parses(artifact) THEN Outcome(made, Err("invalid json", NoId))
    ELSE IF artifact.json.id = NoId THEN Outcome(made, Err("missing id", NoId))
    ELSE Outcome([made EXCEPT
                      !.artifacts[artifact.json.id] = artifact,
                      !.libIndex = ToStringPretty(
                          PutEntry(LoadIndex(f.libIndex, now), artifact.json, now))],
                 Ok(Unit))

\* A variant of DeleteArtifact that leaves the artifact file in place.
DeleteArtifactIndexOnly(f, artifact_id, now) ==
    IF Exists(f.libIndex)
    THEN Outcome([f EXCEPT !.libIndex = ToStringPretty(
                      DropEntry(ReadValue(f.libIndex, DefaultIndex(now)),
                                artifact_id, now))],
                 Ok(Unit))
    ELSE Outcome(f, Ok(Unit))

DeleteArtifact(f, artifact_id, now) ==
    LET removed == [f EXCEPT !.artifacts[artifact_id] = Missing] IN
    IF Exists(f.libIndex)
    THEN Outcome([removed EXCEPT !.libIndex = ToStringPretty(
                      DropEntry(ReadValue(f.libIndex, DefaultIndex(now)),
                                artifact_id, now))],
                 Ok(Unit))
    ELSE Outcome(removed, Ok(Unit))

\* A variant of SearchArtifacts that parses the query before it looks for
\* the index file.
SearchArtifactsParsesFirst(f, query, now) ==
    Outcome(f, IF ~Parses(query) THEN Err("invalid json", NoId)
               ELSE IF ~Exists(f.libIndex) THEN Ok(Compact(<<>>))
               ELSE LET index == ReadValue(f.libIndex, DefaultIndex(now)) IN
                    IF index.kind # "object" THEN Ok(Compact(<<>>))
                    ELSE Ok(ToStringCompact(SelectSeq(index.artifacts,
                                LAMBDA a : Matches(a, query.json)))))

SearchArtifacts(f, query, now) ==
    Outcome(f, IF ~Exists(f.libIndex) THEN Ok(Compact(<<>>))
               ELSE IF ~Parses(query) THEN Err("invalid json", NoId)
               ELSE LET index == ReadValue(f.libIndex, DefaultIndex(now)) IN
                    IF index.kind # "object" THEN Ok(Compact(<<>>))
                    ELSE Ok(ToStringCompact(SelectSeq(index.artifacts,
                                LAMBDA a : Matches(a, query.json)))))

get_library_index ==
    /\ scope = "library"
    /\ \E now \in clock..MaxClock :
         /\ clock' = now
         /\ Returns("get_library_index", NoId, Unit, GetLibraryIndex(fs, now))

save_library_index ==
    /\ scope = "library"
    /\ UNCHANGED clock
    /\ \E index \in IndexInputs :
         Returns("save_library_index", NoId, index, SaveLibraryIndex(fs, index))

get_artifact ==
    /\ scope = "library"
    /\ UNCHANGED clock
    /\ \E artifact_id \in Ids :
         Returns("get_artifact", artifact_id, Unit, GetArtifact(fs, artifact_id))

save_artifact ==
    /\ scope = "library"
    /\ \E artifact \in ArtifactInputs, now \in clock..MaxClock :
         /\ clock' = now
         /\ Returns("save_artifact",
                    IF Parses(artifact) THEN artifact.json.id ELSE NoId,
                    artifact, SaveArtifact(fs, artifact, now))

delete_artifact ==
    /\ scope = "library"
    /\ \E artifact_id \in Ids, now \in clock..MaxClock :
         /\ clock' = now
         /\ Returns("delete_artifact", artifact_id, Unit,
                    DeleteArtifact(fs, artifact_id, now))

\* An artifact with all the metadata the index keeps.
SearchBase ==
    [projectId |-> "p1", type |-> "quiz", grade |-> "3", subject |-> "math",
     designPackId |-> "dp1", title |-> Str(<<"A", "b">>),
     objectiveTags |-> Tags(<<"t1">>)]

\* The metadata of the artifacts searched: SearchBase with one member
\* missing or different.
SearchMetas ==
    {SearchBase}
    \cup {[SearchBase EXCEPT ![k] = v] : k \in EqualityFilters, v \in {NoId, "other"}}
    \cup {[SearchBase EXCEPT !.title = t] : t \in {NoStr, Str(<<>>), Str(<<"b">>)}}
    \cup {[SearchBase EXCEPT !.objectiveTags = g] :
              g \in {NoTags, Tags(<<>>), Tags(<<"t2", "t1">>)}}

SearchDoc(id, meta) ==
    [id |-> id, html |-> 1, projectId |-> meta.projectId, type |-> meta.type,
     grade |-> meta.grade, subject |-> meta.subject,
     designPackId |-> meta.designPackId, title |-> meta.title,
     objectiveTags |-> meta.objectiveTags]

\* The criteria a query holds as strings.
Criteria(q) ==
    {k \in EqualityFilters \cup {"objectiveTag"} : q[k] # NoId}
    \cup (IF q.searchText.str THEN {"searchText"} ELSE {})

\* The queries of a search: no criterion, one, two, or all seven.
SearchQueries ==
    {Raw(q) : q \in {c \in [projectId : {NoId, "p1"}, grade : {NoId, "3"},
                             subject : {NoId, "math"}, type : {NoId, "quiz"},
                             designPackId : {NoId, "dp1"},
                             objectiveTag : {NoId, "t1"},
                             searchText : {NoStr, Str(<<>>), Str(<<"a">>),
                                           Str(<<"B">>)}] :
                         Cardinality(Criteria(c)) \in {0, 1, 2, 7}}}
    \cup {Garbage}

search_artifacts ==
    /\ scope \in {"library", "search"}
    /\ UNCHANGED clock
    /\ \E query \in IF scope = "search" THEN SearchQueries ELSE Queries :
         Returns("search_artifacts", NoId, query, SearchArtifacts(fs, query, clock))

----------------------------------------------------------------------------
(* The Ollama manager.  Its commands ask the operating system (which,      *)
(* ollama --version, ollama pull, sh -c, pkill) and the local server       *)
(* (GET {OLLAMA_API_URL}/api/tags); what the system and the server answer  *)
(* is drawn anew at each call.  start_ollama yields at each sleep and at   *)
(* each request; the other commands are run to their end in one step.     *)
(* install_ollama and get_recommended_models are left out.                 *)

max_retries == 10

\* What std::process::Command meets: the program cannot be run at all, it
\* exits with a non-zero status, it exits with status zero.
OsAnswers == {"no_spawn", "failed", "success"}

\* What reqwest::get(".../api/tags") meets: no answer, an answer with an
\* error status, a success status with a body that is no OllamaTagsResponse,
\* a success status with the list of models.
HttpAnswers == {"unreachable", "error_status", "bad_body", "models"}
NotAsked == "<not asked>"

ModelNames == {"llama3.2", "mistral"}

\* Ok(response) and response.status().is_success()
IsSuccess(http) == http \in {"bad_body", "models"}

\* response.json::<OllamaTagsResponse>() and its models, or nothing
ModelsOf(http) == IF http = "models" THEN <<"llama3.2">> ELSE <<>>

\* which ollama: output().map(|o| o.status.success()).unwrap_or(false)
IsOllamaInstalled(which) == which = "success"

\* ollama --version: its trimmed output when it exits with status zero
GetOllamaVersion(version) == IF version = "success" THEN "0.5.1" ELSE NoId

\* What a command met: the answers to which, to the command it runs and to
\* its last request.
Met(which, os, http) == [which |-> which, os |-> os, http |-> http]

\* pc: where start_ollama stands; i: the loop variable; probes, failed and
\* sleeps: requests made, requests that found no running server and 500 ms
\* sleeps since start_ollama was last called.
OllamaIdle ==
    [pc |-> "idle", i |-> 0, probes |-> 0, failed |-> 0, sleeps |-> 0,
     met |-> Met(NotAsked, NotAsked, NotAsked)]

\* A value a command returns that is no string: Serialize gives it its kind.
Serialized(kind, value) == [fmt |-> kind, json |-> value]

OllamaStatus(installed, running, version, models) ==
    Serialized("OllamaStatus",
               [installed |-> installed, running |-> running,
                version |-> version, models |-> models])

\* `http` is what the server answers while the command runs, asked or not.
CheckOllamaStatus(which, version, http) ==
    LET installed == IsOllamaInstalled(which) IN
    Ok(OllamaStatus(installed,
                    installed /\ IsSuccess(http),
                    IF installed THEN GetOllamaVersion(version) ELSE NoId,
                    IF installed THEN ModelsOf(http) ELSE <<>>))

StopOllama(os) ==
    IF os = "no_spawn" THEN Err("failed to stop", NoId) ELSE Ok(Raw("stopped"))

PullOllamaModel(model_name, os) ==
    IF os = "no_spawn" THEN Err("failed to pull", NoId)
    ELSE IF os = "success" THEN Ok(Raw(model_name))
    ELSE Err("failed to pull", model_name)

ListOllamaModels(http) == Ok(Serialized("Vec<OllamaModel>", ModelsOf(http)))

\* A variant of AfterProbe that goes on probing whatever the server answers.
AfterProbeIgnoresAnswer(call, http) ==
    LET asked == [call EXCEPT !.probes = @ + 1, !.met.http = http,
                              !.failed = @ + (IF IsSuccess(http) THEN 0 ELSE 1)]
    IN  IF call.i < max_retries - 1 THEN [asked EXCEPT !.pc = "sleep"]
        ELSE [asked EXCEPT !.pc = "failed"]

\* One turn of `for i in 0..max_retries`, up to its sleep: return Ok when the
\* server answers with a success status, else sleep if i < max_retries - 1,
\* else leave the loop.
AfterProbe(call, http) ==
    LET asked == [call EXCEPT !.probes = @ + 1, !.met.http = http,
                              !.failed = @ + (IF IsSuccess(http) THEN 0 ELSE 1)]
    IN  IF IsSuccess(http) THEN [asked EXCEPT !.pc = "started"]
        ELSE IF call.i < max_retries - 1 THEN [asked EXCEPT !.pc = "sleep"]
        ELSE [asked EXCEPT !.pc = "failed"]

\* An Ollama command returned.
OllamaReturns(cmd, text, res) ==
    /\ last' = [cmd |-> cmd, id |-> NoId, text |-> text, res |-> res]
    /\ UNCHANGED <<fs, clock, scope, pre, race>>

check_ollama_status ==
    /\ ollama.pc = "idle"
    /\ \E which \in OsAnswers, version \in OsAnswers, http \in HttpAnswers :
         /\ ollama' = [ollama EXCEPT !.met = Met(which, version, http)]
         /\ OllamaReturns("check_ollama_status", Unit,
                          CheckOllamaStatus(which, version, http))

\* The server process is spawned, or start_ollama returns the error; then
\* the 2 s sleep.
start_ollama ==
    /\ ollama.pc = "idle"
    /\ \E os \in OsAnswers :
         LET call == [OllamaIdle EXCEPT !.met.os = os] IN
         IF os = "no_spawn"
         THEN /\ ollama' = call
              /\ OllamaReturns("start_ollama", Unit, Err("failed to start", NoId))
         ELSE /\ ollama' = [call EXCEPT !.pc = "probe"]
              /\ UNCHANGED <<fs, clock, scope, last, pre, race>>

\* One request of the loop of start_ollama; it returns Ok at a success and
\* the error after the last request.
start_ollama_probe ==
    /\ ollama.pc = "probe"
    /\ \E http \in HttpAnswers :
         LET after == AfterProbe(ollama, http) IN
         IF after.pc = "started"
         THEN /\ ollama' = [after EXCEPT !.pc = "idle"]
              /\ OllamaReturns("start_ollama", Unit, Ok(Raw("started")))
         ELSE IF after.pc = "failed"
         THEN /\ ollama' = [after EXCEPT !.pc = "idle"]
              /\ OllamaReturns("start_ollama", Unit, Err("not responding", NoId))
         ELSE /\ ollama' = after
              /\ UNCHANGED <<fs, clock, scope, last, pre, race>>

\* The 500 ms sleep, then the next turn of the loop.
start_ollama_sleep ==
    /\ ollama.pc = "sleep"
    /\ ollama' = [ollama EXCEPT !.pc = "probe", !.i = @ + 1, !.sleeps = @ + 1]
    /\ UNCHANGED <<fs, clock, scope, last, pre, race>>

stop_ollama ==
    /\ ollama.pc = "idle"
    /\ \E os \in OsAnswers :
         /\ ollama' = [ollama EXCEPT !.met = Met(NotAsked, os, NotAsked)]
         /\ OllamaReturns("stop_ollama", Unit, StopOllama(os))

pull_ollama_model ==
    /\ ollama.pc = "idle"
    /\ \E model_name \in ModelNames, os \in OsAnswers :
         /\ ollama' = [ollama EXCEPT !.met = Met(NotAsked, os, NotAsked)]
         /\ OllamaReturns("pull_ollama_model", Raw(model_name),
                          PullOllamaModel(model_name, os))

list_ollama_models ==
    /\ ollama.pc = "idle"
    /\ \E http \in HttpAnswers :
         /\ ollama' = [ollama EXCEPT !.met = Met(NotAsked, NotAsked, http)]
         /\ OllamaReturns("list_ollama_models", Unit, ListOllamaModels(http))

----------------------------------------------------------------------------
(* The program: commands run one after another *)

Scopes == {"packs", "projects", "library"} \cup LearnerScopes

EmptyFs ==
    [dirs |-> {}, packs |-> Missing, projects |-> Missing,
     profiles |-> Missing, ldirs |-> {},
     mastery |-> [l \in Ids |-> Missing],
     checks |-> [l \in Ids |-> Missing],
     libIndex |-> Missing, artifacts |-> [a \in Ids |-> Missing]]

NoCommand == [cmd |-> "none", id |-> NoId, text |-> Unit, res |-> Ok(Unit)]

Init ==
    /\ fs = EmptyFs
    /\ clock = 0
    /\ scope \in Scopes
    /\ last = NoCommand
    /\ pre = fs
    /\ race = 0
    /\ ollama = OllamaIdle

Next ==
    \/ get_design_packs
    \/ get_design_pack
    \/ save_design_pack
    \/ delete_design_pack
    \/ get_local_projects
    \/ get_local_project
    \/ save_local_project
    \/ delete_local_project
    \/ get_projects_by_type
    \/ add_artifact_to_project
    \/ get_learner_profiles
    \/ save_learner_profile
    \/ delete_learner_profile
    \/ get_learner_mastery
    \/ save_objective_mastery
    \/ save_learner_mastery
    \/ get_quick_check_history
    \/ save_quick_check_result
    \/ get_library_index
    \/ save_library_index
    \/ get_artifact
    \/ save_artifact
    \/ delete_artifact
    \/ search_artifacts

Spec == Init /\ [][Next]_vars

----------------------------------------------------------------------------
(* Concurrent callers of save_local_project.  A command is a task that    *)
(* yields at each .await: after create_dir_all, after read_to_string (the  *)
(* index as it then was, parsed) and after write.  Nothing locks the       *)
(* index between the read and the write.                                   *)

Procs == {1, 2}

\* The documents the concurrent callers save: valid, with an id.
RaceDocs == {d \in ProjectDocs : d.id # NoId /\ d.artsKind = "absent"}

IdleCall ==
    [pc |-> "idle", n |-> 0, doc |-> ProjectDoc(NoId, "quick_create", "absent",
                                                <<>>, NoStamp),
     snap |-> <<>>, res |-> Ok(Unit)]

\* A variant of WriteBack that reads the index again as it writes.
WriteBackMerged(f, call) ==
    [f EXCEPT !.projects = ToStringPrettyVec(Upsert(LoadVec(f.projects), call.doc))]

\* fs::write(&index_path, to_string_pretty(&projects)) of the array the task
\* read earlier, with its project put in
WriteBack(f, call) ==
    [f EXCEPT !.projects = ToStringPrettyVec(Upsert(call.snap, call.doc))]

\* The task is called: the directory is made, the project parsed.
BeginSave(p) ==
    /\ scope = "projects"
    /\ race.calls[p].pc \in {"idle", "done"}
    /\ race.calls[p].n < MaxCalls
    /\ \E d \in RaceDocs :
         race' = [race EXCEPT !.calls[p] =
                      [pc |-> "read", n |-> @.n + 1, doc |-> d,
                       snap |-> <<>>, res |-> Ok(Unit)]]
    /\ fs' = MakeDirs(fs, {"projects"})
    /\ UNCHANGED <<clock, scope, last, pre, ollama>>

\* The task reads the index.
ReadIndex(p) ==
    /\ race.calls[p].pc = "read"
    /\ race' = [race EXCEPT !.calls[p].pc = "write",
                            !.calls[p].snap = LoadVec(fs.projects)]
    /\ UNCHANGED <<fs, clock, scope, last, pre, ollama>>

\* The task writes the index and returns Ok.
WriteIndex(p) ==
    /\ race.calls[p].pc = "write"
    /\ fs' = WriteBack(fs, race.calls[p])
    /\ race' = [race EXCEPT !.calls[p].pc = "done",
                            !.calls[p].res = Ok(Unit),
                            !.writer = p]
    /\ UNCHANGED <<clock, scope, last, pre, ollama>>

RaceInit ==
    /\ fs = EmptyFs
    /\ clock = 0
    /\ scope = "projects"
    /\ last = NoCommand
    /\ pre = fs
    /\ race = [calls |-> [p \in Procs |-> IdleCall], writer |-> 0]
    /\ ollama = OllamaIdle

RaceNext == \E p \in Procs : BeginSave(p) \/ ReadIndex(p) \/ WriteIndex(p)

SpecRace == RaceInit /\ [][RaceNext]_vars

----------------------------------------------------------------------------
(* Concurrent callers of save_artifact.  The task yields after             *)
(* create_dir_all, after the write of the artifact file, after             *)
(* read_to_string of the index and after the write of the index.  Nothing  *)
(* locks the index between the read and the write.                         *)

\* The artifacts the concurrent callers save: valid, with an artifactId.
RaceArtifacts == {d \in ArtifactDocs : d.id # NoId /\ d.html = 1}

IdleArtifactCall ==
    [pc |-> "idle", n |-> 0,
     doc |-> [id |-> NoId, type |-> "worksheet", html |-> 1],
     snap |-> DefaultIndex(NoStamp), res |-> Ok(Unit)]

\* fs::write(&artifact_path, &artifact)
WriteArtifactFile(f, call) ==
    [f EXCEPT !.artifacts[call.doc.id] = Raw(call.doc)]

\* fs::write(&index_path, to_string_pretty(&index)) of the index the task
\* read earlier, with its entry put in
WriteLibraryIndex(f, call, now) ==
    [f EXCEPT !.libIndex = ToStringPretty(PutEntry(call.snap, call.doc, now))]

\* The task is called: the directories are made, the artifact parsed.
BeginSaveArtifact(p) ==
    /\ scope = "library"
    /\ race.calls[p].pc \in {"idle", "done"}
    /\ race.calls[p].n < MaxCalls
    /\ \E d \in RaceArtifacts :
         race' = [race EXCEPT !.calls[p] =
                      [pc |-> "file", n |-> @.n + 1, doc |-> d,
                       snap |-> DefaultIndex(NoStamp), res |-> Ok(Unit)]]
    /\ fs' = MakeDirs(fs, {"library", "library/artifacts"})
    /\ UNCHANGED <<clock, scope, last, pre, ollama>>

\* The task writes the artifact file.
WriteArtifact(p) ==
    /\ race.calls[p].pc = "file"
    /\ fs' = WriteArtifactFile(fs, race.calls[p])
    /\ race' = [race EXCEPT !.calls[p].pc = "read"]
    /\ UNCHANGED <<clock, scope, last, pre, ollama>>

\* The task reads the index, or takes the default one.
ReadLibraryIndex(p) ==
    /\ race.calls[p].pc = "read"
    /\ race' = [race EXCEPT !.calls[p].pc = "write",
                            !.calls[p].snap = LoadIndex(fs.libIndex, clock)]
    /\ UNCHANGED <<fs, clock, scope, last, pre, ollama>>

\* The task writes the index and returns Ok.
WriteLibrary(p) ==
    /\ race.calls[p].pc = "write"
    /\ fs' = WriteLibraryIndex(fs, race.calls[p], clock)
    /\ race' = [race EXCEPT !.calls[p].pc = "done",
                            !.calls[p].res = Ok(Unit),
                            !.writer = p]
    /\ UNCHANGED <<clock, scope, last, pre, ollama>>

RaceLibInit ==
    /\ fs = EmptyFs
    /\ clock = 0
    /\ scope = "library"
    /\ last = NoCommand
    /\ pre = fs
    /\ race = [calls |-> [p \in Procs |-> IdleArtifactCall], writer |-> 0]
    /\ ollama = OllamaIdle

RaceLibNext ==
    \E p \in Procs :
        \/ BeginSaveArtifact(p)
        \/ WriteArtifact(p)
        \/ ReadLibraryIndex(p)
        \/ WriteLibrary(p)

SpecRaceLib == RaceLibInit /\ [][RaceLibNext]_vars

----------------------------------------------------------------------------
(* The library when only save_artifact and delete_artifact are used *)

SyncInit == Init /\ scope = "library"

SyncNext == save_artifact \/ delete_artifact

SpecSync == SyncInit /\ [][SyncNext]_vars

----------------------------------------------------------------------------
(* Searches of a library that save_artifact filled *)

\* The library after save_artifact of the documents `docs`, one after another.
RECURSIVE Saved(_)
Saved(docs) ==
    IF docs = <<>> THEN EmptyFs
    ELSE SaveArtifact(Saved(SubSeq(docs, 1, Len(docs) - 1)),
                      Raw(docs[Len(docs)]), 0).fs

SearchInit ==
    /\ \E docs \in {<<>>}
                  \cup {<<SearchDoc("a", m)>> : m \in SearchMetas}
                  \cup {<<SearchDoc("a", m), SearchDoc("b", n)>> :
                           m \in SearchMetas, n \in SearchMetas} :
          fs = Saved(docs)
    /\ clock = 0
    /\ scope = "search"
    /\ last = NoCommand
    /\ pre = fs
    /\ race = 0
    /\ ollama = OllamaIdle

SearchNext == search_artifacts

SpecSearch == SearchInit /\ [][SearchNext]_vars

----------------------------------------------------------------------------
(* The Ollama manager alone.  A task that is not blocked is polled again:  *)
(* each request ends (with an answer or an error) and each sleep ends.     *)

OllamaInit ==
    /\ fs = EmptyFs
    /\ clock = 0
    /\ scope = "ollama"
    /\ last = NoCommand
    /\ pre = fs
    /\ race = 0
    /\ ollama = OllamaIdle

OllamaNext ==
    \/ check_ollama_status
    \/ start_ollama
    \/ start_ollama_probe
    \/ start_ollama_sleep
    \/ stop_ollama
    \/ pull_ollama_model
    \/ list_ollama_models

SpecOllama == OllamaInit /\ [][OllamaNext]_vars

SpecOllamaFair ==
    SpecOllama /\ WF_vars(start_ollama_probe) /\ WF_vars(start_ollama_sleep)

----------------------------------------------------------------------------
(* The commands on a data directory in which every domain holds data and   *)
(* the domains name each other: project "a" lists artifact "a", the        *)
(* artifacts carry the projectId of their project, learner "a" has a       *)
(* profile, learner "b" has none.                                          *)

\* An artifact of a project.
ProjectArtifact(id, project_id) ==
    [id |-> id, type |-> "worksheet", html |-> 1, projectId |-> project_id]

\* The data directory after the commands below, one after another.
Populated ==
    LET f1 == SaveDesignPack(EmptyFs, Raw([id |-> "a", body |-> 1])).fs
        f2 == SaveLocalProject(f1, Raw(ProjectDoc("a", "quick_create", "absent",
                                                  <<>>, NoStamp))).fs
        f3 == SaveLocalProject(f2, Raw(ProjectDoc("b", "learning_path", "absent",
                                                  <<>>, NoStamp))).fs
        f4 == AddArtifactToProject(f3, "a", "a", 0).fs
        f5 == AddArtifactToProject(f4, "b", "b", 0).fs
        f6 == SaveArtifact(f5, Raw(ProjectArtifact("a", "a")), 0).fs
        f7 == SaveArtifact(f6, Raw(ProjectArtifact("b", "b")), 0).fs
        f8 == SaveLearnerProfile(f7, Raw([id |-> "a", body |-> 1])).fs
        f9 == SaveObjectiveMastery(f8, "a", Raw([id |-> "o1", body |-> 1]), 0).fs
    IN  SaveQuickCheckResult(f9, "a", Raw([id |-> "o1"])).fs

CrossInit ==
    /\ fs = Populated
    /\ clock = 0
    /\ scope \in Scopes
    /\ last = NoCommand
    /\ pre = fs
    /\ race = 0
    /\ ollama = OllamaIdle

SpecCross == CrossInit /\ [][Next]_vars

----------------------------------------------------------------------------
(* Properties *)

Count(arr, id) == Cardinality({i \in 1..Len(arr) : arr[i].id = id})
Range(arr) == {arr[i] : i \in 1..Len(arr)}
UniqueIds(arr) == \A i, j \in 1..Len(arr) : arr[i].id = arr[j].id => i = j
Others(arr, id) == SelectSeq(arr, LAMBDA x : x.id # id)
LibEntries(f) == Artifacts(LoadIndex(f.libIndex, NoStamp))
ValidInput(text) == Parses(text) /\ text.json.id # NoId

\* C1: whatever save, delete and add_artifact_to_project commands have run,
\* one after another, from an empty data directory, no array index file
\* (profiles.json, packs.json, projects.json) holds two entries with the same id.
C1_UniqueIds ==
    /\ UniqueIds(LoadVec(fs.profiles))
    /\ UniqueIds(LoadVec(fs.packs))
    /\ UniqueIds(LoadVec(fs.projects))

\* A project was saved under an id the index already held, beside another one.
C1_Replaced ==
    /\ last.cmd = "save_local_project"
    /\ last.res.ok
    /\ HasId(LoadVec(pre.projects), last.id)
    /\ Len(LoadVec(fs.projects)) = 2

\* Saving `text` twice in a row from f with `save`: the entries `entries`
\* reads hold exactly one with the document's id, it is `entry`, and the
\* second save leaves the set of entries of the first.
TwiceIsOnce(once, twice, entry) ==
    /\ Count(twice, entry.id) = 1
    /\ \A i \in 1..Len(twice) : twice[i].id = entry.id => twice[i] = entry
    /\ Range(twice) = Range(once)

\* C2 (as claimed): from every index state, saving the same document twice in
\* a row with save_learner_profile, save_design_pack, save_local_project or
\* save_artifact leaves exactly one index entry with the document's id,
\* holding the latest content, and the second save leaves the set of entries
\* of the first.
C2_SaveTwice ==
    /\ scope = "profiles" =>
         \A text \in ProfileInputs : ValidInput(text) =>
             LET once == SaveLearnerProfile(fs, text).fs
                 twice == SaveLearnerProfile(once, text).fs
             IN  TwiceIsOnce(LoadVec(once.profiles), LoadVec(twice.profiles),
                             text.json)
    /\ scope = "packs" =>
         \A text \in PackInputs : ValidInput(text) =>
             LET once == SaveDesignPack(fs, text).fs
                 twice == SaveDesignPack(once, text).fs
             IN  TwiceIsOnce(LoadVec(once.packs), LoadVec(twice.packs), text.json)
    /\ scope = "projects" =>
         \A text \in ProjectInputs : ValidInput(text) =>
             LET once == SaveLocalProject(fs, text).fs
                 twice == SaveLocalProject(once, text).fs
             IN  TwiceIsOnce(LoadVec(once.projects), LoadVec(twice.projects),
                             text.json)
    /\ scope = "library" =>
         \A text \in ArtifactInputs : ValidInput(text) =>
             \A t1 \in clock..MaxClock : \A t2 \in t1..MaxClock :
                 LET once == SaveArtifact(fs, text, t1).fs
                     twice == SaveArtifact(once, text, t2).fs
                 IN  TwiceIsOnce(LibEntries(once), LibEntries(twice),
                                 IndexEntry(text.json))

\* C3: when calls of save_local_project overlap, each write returns Ok and
\* the index then holds what the writer computed from the array it had read:
\* that array with the writer's project in the place of the entry with its
\* id, or at the end; what was written between its read and its write is gone.
C3_LastWriteWins ==
    \A w \in Procs :
        (race.writer = w /\ race.calls[w].pc = "done") =>
            LET snap == race.calls[w].snap
                doc == race.calls[w].doc
                now == LoadVec(fs.projects)
            IN  /\ race.calls[w].res.ok
                /\ Len(now) = Len(snap) + (IF HasId(snap, doc.id) THEN 0 ELSE 1)
                /\ \A i \in 1..Len(snap) :
                       now[i] = IF snap[i].id = doc.id THEN doc ELSE snap[i]
                /\ now[Len(now)].id # doc.id => HasId(snap, doc.id)
                /\ Count(now, doc.id) = 1

\* Two overlapping first calls saved projects with different ids, both
\* returned Ok, and the index holds only one of the two.
C3_LostUpdate ==
    /\ \A p \in Procs : /\ race.calls[p].pc = "done"
                        /\ race.calls[p].n = 1
                        /\ race.calls[p].res.ok
    /\ race.calls[1].doc.id # race.calls[2].doc.id
    /\ \E p \in Procs : ~HasId(LoadVec(fs.projects), race.calls[p].doc.id)
    /\ Len(LoadVec(fs.projects)) = 1

\* C4: after any save_artifact and delete_artifact commands run one after
\* another from an empty library, the file <id>.json exists exactly when the
\* index's artifacts array holds one entry, and only one, with that id.
C4_InSync ==
    /\ \A a \in Ids : Exists(fs.artifacts[a]) <=> Count(LibEntries(fs), a) = 1
    /\ \A i \in 1..Len(LibEntries(fs)) : LibEntries(fs)[i].id \in Ids
    /\ UniqueIds(LibEntries(fs))

\* An artifact was deleted while another one stays stored and indexed.
C4_DeletedOneOfTwo ==
    /\ last.cmd = "delete_artifact"
    /\ last.res.ok
    /\ Exists(pre.artifacts[last.id])
    /\ \E b \in Ids \ {last.id} : Exists(fs.artifacts[b])

\* C5: delete_design_pack, delete_local_project and delete_learner_profile
\* for an id the index does not hold return Ok, leave the entries of the
\* index and their order as they were and do not create the index file; and
\* a delete repeated right away changes nothing more.
C5_DeleteAbsent ==
    /\ last.cmd = "delete_design_pack" =>
         /\ DeleteDesignPack(fs, last.id).fs = fs
         /\ ~HasId(LoadVec(pre.packs), last.id) =>
              /\ last.res.ok
              /\ LoadVec(fs.packs) = LoadVec(pre.packs)
              /\ Exists(fs.packs) <=> Exists(pre.packs)
    /\ last.cmd = "delete_local_project" =>
         /\ DeleteLocalProject(fs, last.id).fs = fs
         /\ ~HasId(LoadVec(pre.projects), last.id) =>
              /\ last.res.ok
              /\ LoadVec(fs.projects) = LoadVec(pre.projects)
              /\ Exists(fs.projects) <=> Exists(pre.projects)
    /\ last.cmd = "delete_learner_profile" =>
         /\ DeleteLearnerProfile(fs, last.id).fs = fs
         /\ ~HasId(LoadVec(pre.profiles), last.id) =>
              /\ last.res.ok
              /\ LoadVec(fs.profiles) = LoadVec(pre.profiles)
              /\ Exists(fs.profiles) <=> Exists(pre.profiles)

\* A project id the index does not hold was deleted from an index that holds
\* another project.
C5_AbsentFromFilled ==
    /\ last.cmd = "delete_local_project"
    /\ last.res.ok
    /\ ~HasId(LoadVec(pre.projects), last.id)
    /\ Len(LoadVec(pre.projects)) >= 1

\* C6 (as claimed): delete_artifact for an id that has neither an artifact
\* file nor an index entry returns Ok and leaves the library index document,
\* its lastUpdated member included, exactly as it was.
C6_DeleteAbsentKeepsIndex ==
    (/\ last.cmd = "delete_artifact"
     /\ ~Exists(pre.artifacts[last.id])
     /\ ~HasId(LibEntries(pre), last.id)) =>
        /\ last.res.ok
        /\ Exists(fs.libIndex) <=> Exists(pre.libIndex)
        /\ Exists(pre.libIndex) =>
             ReadValue(fs.libIndex, DefaultIndex(NoStamp))
                 = ReadValue(pre.libIndex, DefaultIndex(NoStamp))

\* C7: once delete_design_pack, delete_local_project or delete_artifact has
\* returned Ok for an id, the index holds no entry with that id, the get by
\* id command returns not found, and the entries with other ids (and the
\* other artifact files) are all there, unchanged and in their order.
C7_Deleted ==
    /\ last.cmd = "delete_design_pack" =>
         /\ last.res.ok
         /\ ~HasId(LoadVec(fs.packs), last.id)
         /\ GetDesignPack(fs, last.id).res = Err("not found", last.id)
         /\ LoadVec(fs.packs) = Others(LoadVec(pre.packs), last.id)
    /\ last.cmd = "delete_local_project" =>
         /\ last.res.ok
         /\ ~HasId(LoadVec(fs.projects), last.id)
         /\ GetLocalProject(fs, last.id).res = Err("not found", last.id)
         /\ LoadVec(fs.projects) = Others(LoadVec(pre.projects), last.id)
    /\ last.cmd = "delete_artifact" =>
         /\ last.res.ok
         /\ ~HasId(LibEntries(fs), last.id)
         /\ GetArtifact(fs, last.id).res = Err("not found", last.id)
         /\ LibEntries(fs) = Others(LibEntries(pre), last.id)
         /\ \A b \in Ids \ {last.id} : fs.artifacts[b] = pre.artifacts[b]

\* An indexed artifact was deleted from an index that holds another one.
C7_DeletedIndexed ==
    /\ last.cmd = "delete_artifact"
    /\ HasId(LibEntries(pre), last.id)
    /\ Len(LibEntries(pre)) = 2
    /\ Len(LibEntries(fs)) = 1

\* An index file that is there but is no JSON of the shape its commands read.
BadVec(file) == Exists(file) /\ ~Parses(file)
BadIndex(file) == Exists(file) /\ (Parses(file) => file.json.kind # "object")
BadMastery(file) == Exists(file) /\ (Parses(file) => file.json.kind # "object")

\* C8 (as claimed): when a stored index file cannot be parsed as JSON of the
\* expected shape, every command that parses it returns an error and leaves
\* the file as it is.
C8_ParseFailureIsError ==
    /\ (/\ last.cmd \in {"get_design_pack", "save_design_pack", "delete_design_pack"}
        /\ BadVec(pre.packs)) =>
           ~last.res.ok /\ fs.packs = pre.packs
    /\ (/\ last.cmd \in {"get_local_project", "save_local_project",
                         "delete_local_project", "get_projects_by_type",
                         "add_artifact_to_project"}
        /\ BadVec(pre.projects)) =>
           ~last.res.ok /\ fs.projects = pre.projects
    /\ (/\ last.cmd \in {"save_learner_profile", "delete_learner_profile"}
        /\ BadVec(pre.profiles)) =>
           ~last.res.ok /\ fs.profiles = pre.profiles
    /\ (/\ last.cmd = "get_quick_check_history"
        /\ last.text.json # NoFilter
        /\ BadVec(pre.checks[last.id])) =>
           ~last.res.ok /\ fs.checks = pre.checks
    /\ (/\ last.cmd = "save_quick_check_result"
        /\ BadVec(pre.checks[last.id])) =>
           ~last.res.ok /\ fs.checks = pre.checks
    /\ (/\ last.cmd = "save_objective_mastery"
        /\ BadMastery(pre.mastery[last.id])) =>
           ~last.res.ok /\ fs.mastery = pre.mastery
    /\ (/\ last.cmd \in {"save_artifact", "delete_artifact", "search_artifacts"}
        /\ BadIndex(pre.libIndex)) =>
           ~last.res.ok /\ fs.libIndex = pre.libIndex

\* The files of a data directory, without its directories.
Files(f) == [f EXCEPT !.dirs = {}, !.ldirs = {}]

SaveCommands ==
    {"save_learner_profile", "save_design_pack", "save_local_project",
     "save_artifact", "save_objective_mastery"}

\* C9: save_learner_profile, save_design_pack, save_local_project,
\* save_artifact and save_objective_mastery return an error exactly when the
\* input is no JSON or the document has no string id member, and then leave
\* every file as it was.
C9_SaveFailsOnlyOnInput ==
    last.cmd \in SaveCommands =>
        /\ ~last.res.ok <=> ~ValidInput(last.text)
        /\ ~last.res.ok => Files(fs) = Files(pre)
        /\ ~Parses(last.text) => last.res.err = "invalid json"

\* save_objective_mastery refused a record without objectiveId for a learner
\* whose mastery file is there.
C9_Refused ==
    /\ last.cmd = "save_objective_mastery"
    /\ ~last.res.ok
    /\ last.res.err = "missing id"
    /\ Exists(pre.mastery[last.id])

\* C10: when its index file is missing, each of get_learner_profiles,
\* get_design_packs, get_local_projects, get_projects_by_type,
\* get_quick_check_history and search_artifacts returns Ok("[]"), whatever
\* its arguments, and creates nothing.
C10_MissingIsEmpty ==
    LET empty == Ok(Compact(<<>>)) IN
    /\ (last.cmd = "get_learner_profiles" /\ ~Exists(pre.profiles)) =>
           last.res = empty /\ fs = pre
    /\ (last.cmd = "get_design_packs" /\ ~Exists(pre.packs)) =>
           last.res = empty /\ fs = pre
    /\ (last.cmd \in {"get_local_projects", "get_projects_by_type"}
            /\ ~Exists(pre.projects)) =>
           last.res = empty /\ fs = pre
    /\ (last.cmd = "get_quick_check_history" /\ ~Exists(pre.checks[last.id])) =>
           last.res = empty /\ fs = pre
    /\ (last.cmd = "search_artifacts" /\ ~Exists(pre.libIndex)) =>
           last.res = empty /\ fs = pre

\* search_artifacts was given a query that is no JSON while the index file
\* is missing.
C10_BadQueryNoIndex ==
    /\ last.cmd = "search_artifacts"
    /\ last.text = Garbage
    /\ ~Exists(pre.libIndex)
    /\ last.res.ok

\* C11: get_design_pack, get_local_project and get_artifact return an error
\* naming the id whenever no record with that id is stored, be the file
\* missing or without a matching entry; an Ok result is the stored record,
\* never a default or empty document; and they create nothing.
C11_NotFound ==
    /\ last.cmd = "get_design_pack" =>
         /\ fs = pre
         /\ ~HasId(LoadVec(pre.packs), last.id) =>
              ~last.res.ok /\ last.res.err = "not found" /\ last.res.eid = last.id
         /\ HasId(LoadVec(pre.packs), last.id) =>
              last.res.ok /\ last.res.out.json \in Range(LoadVec(pre.packs))
                          /\ last.res.out.json.id = last.id
    /\ last.cmd = "get_local_project" =>
         /\ fs = pre
         /\ ~HasId(LoadVec(pre.projects), last.id) =>
              ~last.res.ok /\ last.res.err = "not found" /\ last.res.eid = last.id
         /\ HasId(LoadVec(pre.projects), last.id) =>
              last.res.ok /\ last.res.out.json \in Range(LoadVec(pre.projects))
                          /\ last.res.out.json.id = last.id
    /\ last.cmd = "get_artifact" =>
         /\ fs = pre
         /\ ~Exists(pre.artifacts[last.id]) =>
              ~last.res.ok /\ last.res.err = "not found" /\ last.res.eid = last.id
         /\ Exists(pre.artifacts[last.id]) =>
              last.res.ok /\ last.res.out = pre.artifacts[last.id]

\* get_local_project was asked for an id the index file, which holds another
\* project, does not hold.
C11_NoMatchingEntry ==
    /\ last.cmd = "get_local_project"
    /\ Len(LoadVec(pre.projects)) >= 1
    /\ ~HasId(LoadVec(pre.projects), last.id)
    /\ ~last.res.ok

\* C13: once delete_learner_profile has returned Ok for a learner, the
\* profiles hold no entry with that learnerId, get_learner_mastery returns the
\* default document with an empty objectives map and get_quick_check_history
\* an empty list, with or without a filter; the profiles, mastery and history
\* of every other learner are as they were.
C13_LearnerRemoved ==
    last.cmd = "delete_learner_profile" =>
        /\ last.res.ok
        /\ ~HasId(LoadVec(fs.profiles), last.id)
        /\ GetLearnerMastery(fs, last.id).res
               = Ok(ToStringCompact(DefaultMastery(last.id)))
        /\ \A o \in Objs \cup {NoFilter} :
               GetQuickCheckHistory(fs, last.id, o).res = Ok(Compact(<<>>))
        /\ LoadVec(fs.profiles) = Others(LoadVec(pre.profiles), last.id)
        /\ \A l \in Ids \ {last.id} :
               /\ fs.mastery[l] = pre.mastery[l]
               /\ fs.checks[l] = pre.checks[l]
               /\ l \in fs.ldirs <=> l \in pre.ldirs

\* A learner with a mastery file was deleted while another learner has one.
C13_RemovedWithData ==
    /\ last.cmd = "delete_learner_profile"
    /\ last.res.ok
    /\ Exists(pre.mastery[last.id])
    /\ \E l \in Ids \ {last.id} : Exists(fs.mastery[l])

\* C14: a save_quick_check_result that returns Ok leaves the learner's
\* history equal to the history before with the new result at its end, and
\* the other learners' histories as they were; no other command changes a
\* history, except delete_learner_profile that of its learner.
C14_AppendOnly ==
    /\ last.cmd = "save_quick_check_result" =>
         /\ last.res.ok =>
              /\ LoadVec(fs.checks[last.id])
                     = Append(LoadVec(pre.checks[last.id]), last.text.json)
              /\ GetQuickCheckHistory(fs, last.id, NoFilter).res.out.json
                     = Append(LoadVec(pre.checks[last.id]), last.text.json)
         /\ ~last.res.ok => fs.checks[last.id] = pre.checks[last.id]
         /\ \A l \in Ids \ {last.id} : fs.checks[l] = pre.checks[l]
    /\ last.cmd = "delete_learner_profile" =>
         \A l \in Ids \ {last.id} : fs.checks[l] = pre.checks[l]
    /\ last.cmd \notin {"save_quick_check_result", "delete_learner_profile"} =>
         fs.checks = pre.checks

\* A result was added to a history that held a result for another objective.
C14_Appended ==
    /\ last.cmd = "save_quick_check_result"
    /\ last.res.ok
    /\ Len(LoadVec(pre.checks[last.id])) >= 1
    /\ LoadVec(pre.checks[last.id])[1] # last.text.json
    /\ Len(LoadVec(fs.checks[last.id])) = Len(LoadVec(pre.checks[last.id])) + 1

\* C12 as the claim words it: the entry meets every criterion the query
\* holds as a string.
C12_Satisfies(entry, query) ==
    /\ \A k \in {"projectId", "grade", "subject", "type", "designPackId"} :
           query[k] # NoId => (entry[k] # NoId /\ entry[k] = query[k])
    /\ query.objectiveTag # NoId =>
           (entry.objectiveTags.arr /\ query.objectiveTag \in Range(entry.objectiveTags.items))
    /\ query.searchText.str =>
           /\ entry.title.str
           /\ \E i \in 1..(Len(entry.title.chars) + 1) :
              \E j \in (i - 1)..Len(entry.title.chars) :
                  LET part == SubSeq(entry.title.chars, i, j) IN
                  /\ Len(part) = Len(query.searchText.chars)
                  /\ \A n \in 1..Len(part) :
                         Lower(part[n]) = Lower(query.searchText.chars[n])

\* C12: search_artifacts returns, in the order of the index, exactly the
\* entries that meet every criterion the query holds as a string (five by
\* equality, objectiveTag by membership in objectiveTags, searchText as a
\* substring of the title whatever the case); an entry without the member a
\* criterion names is left out, and a query without criteria returns all.
C12_SearchIsConjunctive ==
    (last.cmd = "search_artifacts" /\ Parses(last.text)) =>
        /\ last.res.ok
        /\ last.res.out.json
               = SelectSeq(LibEntries(pre), LAMBDA e : C12_Satisfies(e, last.text.json))
        /\ (/\ \A k \in EqualityFilters \cup {"objectiveTag"} : last.text.json[k] = NoId
            /\ ~last.text.json.searchText.str) =>
               last.res.out.json = LibEntries(pre)
        /\ fs = pre

\* A search with two criteria, one of them the search text in another case,
\* returned the second of two entries and not the first.
C12_SecondOnly ==
    /\ last.cmd = "search_artifacts"
    /\ last.res.ok
    /\ Parses(last.text)
    /\ last.text.json.searchText = Str(<<"B">>)
    /\ last.text.json.grade # NoId
    /\ Len(LibEntries(pre)) = 2
    /\ last.res.out.json = <<LibEntries(pre)[2]>>

\* start_ollama has returned and no other command was called since.
StartReturned == ollama.pc = "idle" /\ last.cmd = "start_ollama"

\* The counts of a start_ollama call, in progress and at its return.
C15_Bounded ==
    /\ ollama.probes <= max_retries
    /\ ollama.pc = "probe" =>
         /\ ollama.i < max_retries
         /\ ollama.probes = ollama.i
         /\ ollama.failed = ollama.i
         /\ ollama.sleeps = ollama.i
    /\ ollama.pc = "sleep" =>
         /\ ollama.i < max_retries - 1
         /\ ollama.probes = ollama.i + 1
         /\ ollama.failed = ollama.i + 1
         /\ ollama.sleeps = ollama.i
    /\ StartReturned =>
         /\ last.res.ok <=> (ollama.probes >= 1 /\ IsSuccess(ollama.met.http))
         /\ last.res.ok =>
              /\ ollama.failed = ollama.probes - 1
              /\ ollama.sleeps = ollama.probes - 1
         /\ ~last.res.ok <=>
              \/ ollama.met.os = "no_spawn"
              \/ ollama.probes = max_retries /\ ollama.failed = max_retries
         /\ ollama.met.os = "no_spawn" => ollama.probes = 0 /\ ollama.sleeps = 0
         /\ (~last.res.ok /\ ollama.met.os # "no_spawn") =>
              ollama.sleeps = max_retries - 1

\* C15: start_ollama always returns: after the spawn it makes at most 10
\* requests, returns Ok at the first that is answered with a success status
\* and makes no more, sleeps 500 ms between two requests and not after the
\* last, and returns an error exactly when the spawn failed or all 10
\* requests failed.
C15_StartTerminates ==
    /\ []C15_Bounded
    /\ (ollama.pc # "idle") ~> (ollama.pc = "idle")

\* start_ollama gave up after 10 failed requests and 9 sleeps.
C15_GaveUp ==
    /\ StartReturned
    /\ ~last.res.ok
    /\ ollama.met.os = "success"
    /\ ollama.probes = 10
    /\ ollama.sleeps = 9

\* The request or the program a command depends on failed: the server did
\* not answer, answered with an error status or with a body that cannot be
\* parsed, or the program could not be run or exited with a non-zero status.
C16_Failed ==
    \/ /\ last.cmd = "check_ollama_status"
       /\ \/ ollama.met.which # "success"
          \/ ollama.met.os # "success"
          \/ ollama.met.http # "models"
    \/ /\ last.cmd = "start_ollama"
       /\ ollama.pc = "idle"
       /\ ollama.met.os = "no_spawn" \/ ~IsSuccess(ollama.met.http)
    \/ /\ last.cmd \in {"stop_ollama", "pull_ollama_model"}
       /\ ollama.met.os # "success"
    \/ /\ last.cmd = "list_ollama_models"
       /\ ollama.met.http # "models"

\* C16 (as claimed): whenever the request or the program that
\* check_ollama_status, start_ollama, stop_ollama, pull_ollama_model or
\* list_ollama_models depends on fails, the command returns Err.
C16_FailuresAreErrors == C16_Failed => ~last.res.ok

\* C17 (as claimed): check_ollama_status reports running = true exactly when
\* the server answers GET /api/tags with a success status, and installed =
\* true exactly when the lookup of ollama on the PATH succeeds, each
\* whatever the other is.
C17_StatusFields ==
    last.cmd = "check_ollama_status" =>
        /\ last.res.ok
        /\ last.res.out.json.installed <=> ollama.met.which = "success"
        /\ last.res.out.json.running <=> IsSuccess(ollama.met.http)

\* C18 (as claimed): whenever save_artifact returns Ok, the library index
\* then holds an entry with the artifactId saved, whatever save_library_index,
\* save_artifact and delete_artifact commands came before.
C18_SavedIsIndexed ==
    (last.cmd = "save_artifact" /\ last.res.ok) => HasId(LibEntries(fs), last.id)

\* The mastery document get_learner_mastery returns.
MasteryOf(f, learner_id) == GetLearnerMastery(f, learner_id).res.out.json

\* C19 (as claimed): whenever save_objective_mastery returns Ok for a
\* learner and a record with objectiveId o, get_learner_mastery then returns
\* a document whose objectives map holds that record under o and the records
\* of the other objectives as they were, whatever save_learner_mastery and
\* save_objective_mastery commands came before.
C19_ObjectiveUpserted ==
    (last.cmd = "save_objective_mastery" /\ last.res.ok) =>
        LET before == MasteryOf(pre, last.id)
            after == MasteryOf(fs, last.id)
            o == last.text.json.id
        IN  /\ after.kind = "object"
            /\ o \in DOMAIN after.objectives
            /\ after.objectives[o] = last.text.json
            /\ before.kind = "object" =>
                 /\ DOMAIN after.objectives = DOMAIN before.objectives \cup {o}
                 /\ \A k \in DOMAIN before.objectives \ {o} :
                        after.objectives[k] = before.objectives[k]

\* The artifactIds of a project, none when the member is absent.
ArtifactIds(project) == IF project.artsKind = "array" THEN project.arts ELSE <<>>
NoDuplicates(arr) == \A i, j \in 1..Len(arr) : arr[i] = arr[j] => i = j

\* C20: add_artifact_to_project adds the artifact id at the end of the
\* project's artifactIds unless they hold it already, so the ids are there
\* once each in the order they were first added; the same call again leaves
\* artifactIds as they are; the other projects are unchanged.
C20_AddedOnce ==
    /\ \A i \in 1..Len(LoadVec(fs.projects)) :
           NoDuplicates(ArtifactIds(LoadVec(fs.projects)[i]))
    /\ (last.cmd = "add_artifact_to_project" /\ last.res.ok) =>
         LET before == LoadVec(pre.projects)
             after == LoadVec(fs.projects)
             i == FirstWithId(before, last.id)
             a == last.text.json
             old == ArtifactIds(before[i])
         IN  /\ Len(after) = Len(before)
             /\ \A j \in 1..Len(before) : j # i => after[j] = before[j]
             /\ after[i].id = last.id
             /\ after[i].artsKind = "array"
             /\ after[i].arts = IF a \in Range(old) THEN old ELSE Append(old, a)
             /\ \A t \in clock..MaxClock :
                    LET again == LoadVec(AddArtifactToProject(fs, last.id, a, t).fs.projects)
                    IN  /\ again[i].arts = after[i].arts
                        /\ \A j \in 1..Len(after) : j # i => again[j] = after[j]

\* A second artifact id was added to a project, and then the first again,
\* beside another project.
C20_AddedAgain ==
    /\ last.cmd = "add_artifact_to_project"
    /\ last.res.ok
    /\ Len(LoadVec(fs.projects)) = 2
    /\ LET i == FirstWithId(LoadVec(fs.projects), last.id) IN
       /\ Len(LoadVec(fs.projects)[i].arts) = 2
       /\ LoadVec(fs.projects)[i].arts[1] = last.text.json
       /\ LoadVec(pre.projects)[i].arts = LoadVec(fs.projects)[i].arts

\* C21: add_artifact_to_project returns a not-found error naming the project
\* and leaves projects.json as it is, not created and not rewritten, whenever
\* the file is missing or holds no project with the projectId.
C21_NotFoundWritesNothing ==
    (/\ last.cmd = "add_artifact_to_project"
     /\ ~HasId(LoadVec(pre.projects), last.id)) =>
        /\ ~last.res.ok
        /\ last.res.err = "not found"
        /\ last.res.eid = last.id
        /\ fs.projects = pre.projects
        /\ fs = pre

\* An artifact was to be added to a project the index, which holds another
\* project, does not hold.
C21_OtherProjectOnly ==
    /\ last.cmd = "add_artifact_to_project"
    /\ ~last.res.ok
    /\ Len(LoadVec(pre.projects)) >= 1
    /\ ~HasId(LoadVec(pre.projects), last.id)

\* What the get by id commands return for id x in the data directory f.
Got(f, x) ==
    [pack |-> GetDesignPack(f, x).res, project |-> GetLocalProject(f, x).res,
     artifact |-> GetArtifact(f, x).res]

\* The get by id commands return the document just saved.
SavedIsGot ==
    /\ (last.cmd = "save_design_pack" /\ last.res.ok) =>
           /\ Got(fs, last.id).pack.ok
           /\ Got(fs, last.id).pack.out.json = last.text.json
    /\ (last.cmd = "save_local_project" /\ last.res.ok) =>
           /\ Got(fs, last.id).project.ok
           /\ Got(fs, last.id).project.out.json = last.text.json
    /\ (last.cmd = "save_artifact" /\ last.res.ok) =>
           /\ Got(fs, last.id).artifact.ok
           /\ Got(fs, last.id).artifact.out.json = last.text.json

\* The get by id commands return for x what they returned before the last
\* command, unless that was one of `cmds` for x.
KeptUnless(cmds) ==
    \A x \in Ids :
        ~(last.cmd \in cmds /\ last.id = x) =>
            /\ Got(pre, x).pack.ok => Got(fs, x).pack = Got(pre, x).pack
            /\ Got(pre, x).project.ok => Got(fs, x).project = Got(pre, x).project
            /\ Got(pre, x).artifact.ok => Got(fs, x).artifact = Got(pre, x).artifact

SavesAndDeletes ==
    {"save_design_pack", "save_local_project", "save_artifact",
     "delete_design_pack", "delete_local_project", "delete_artifact"}

\* C22 (as claimed): once save_design_pack, save_local_project or
\* save_artifact has returned Ok for a document, the get by id command
\* returns that document until the id is saved or deleted again.
C22_RoundTrip == SavedIsGot /\ KeptUnless(SavesAndDeletes)

\* C22 (amended): the same, until the id is saved or deleted again or, for a
\* project, given an artifact by add_artifact_to_project.
C22_RoundTripUntilChanged ==
    SavedIsGot /\ KeptUnless(SavesAndDeletes \cup {"add_artifact_to_project"})

\* A project was deleted while another project, saved before, is still
\* returned as it was saved.
C22_OtherDeleted ==
    /\ last.cmd = "delete_local_project"
    /\ HasId(LoadVec(pre.projects), last.id)
    /\ \E x \in Ids \ {last.id} :
           /\ Got(fs, x).project.ok
           /\ Got(fs, x).project.out.json.artsKind = "absent"

\* C23: save_learner_profile, save_design_pack and save_local_project change
\* at most one position of the index array: the first entry with the id is
\* replaced where it is, length and positions unchanged, or else the
\* document is appended at the end; every other entry keeps content and place.
C23_UpsertFrame ==
    LET Framed(before, after) ==
            IF HasId(before, last.id)
            THEN /\ Len(after) = Len(before)
                 /\ \A j \in 1..Len(before) :
                        after[j] = IF j = FirstWithId(before, last.id)
                                   THEN last.text.json ELSE before[j]
            ELSE /\ Len(after) = Len(before) + 1
                 /\ after[Len(after)] = last.text.json
                 /\ \A j \in 1..Len(before) : after[j] = before[j]
    IN  /\ (last.cmd = "save_learner_profile" /\ last.res.ok) =>
               Framed(LoadVec(pre.profiles), LoadVec(fs.profiles))
        /\ (last.cmd = "save_design_pack" /\ last.res.ok) =>
               Framed(LoadVec(pre.packs), LoadVec(fs.packs))
        /\ (last.cmd = "save_local_project" /\ last.res.ok) =>
               Framed(LoadVec(pre.projects), LoadVec(fs.projects))

\* The first of two design packs was saved again with other content.
C23_ReplacedFirst ==
    /\ last.cmd = "save_design_pack"
    /\ last.res.ok
    /\ Len(LoadVec(pre.packs)) = 2
    /\ LoadVec(pre.packs)[1].id = last.id
    /\ LoadVec(pre.packs)[1] # last.text.json
    /\ LoadVec(fs.packs)[1] = last.text.json

\* C24: under two overlapping save_artifact calls with different
\* artifactIds, once both have returned Ok both artifact files exist and the
\* index has an entry for each of them.
C24_BothIndexed ==
    \A p, q \in Procs :
        /\ race.calls[p].pc = "done" /\ race.calls[p].res.ok
        /\ race.calls[q].pc = "done" /\ race.calls[q].res.ok
        /\ race.calls[p].doc.id # race.calls[q].doc.id
        => \A c \in {race.calls[p], race.calls[q]} :
               /\ Exists(fs.artifacts[c.doc.id])
               /\ \E i \in 1..Len(LibEntries(fs)) :
                      LibEntries(fs)[i].id = c.doc.id

\* The four storage domains, the files of each and the commands of each.
Domains == {"design-packs", "projects", "learners", "library"}

DomainFiles(f, d) ==
    CASE d = "design-packs" -> <<f.packs>>
      [] d = "projects" -> <<f.projects>>
      [] d = "learners" -> <<f.profiles, f.ldirs, f.mastery, f.checks>>
      [] d = "library" -> <<f.libIndex, f.artifacts>>

DomainOf(cmd) ==
    IF cmd \in {"get_design_packs", "get_design_pack", "save_design_pack",
                "delete_design_pack"} THEN "design-packs"
    ELSE IF cmd \in {"get_local_projects", "get_local_project",
                     "save_local_project", "delete_local_project",
                     "get_projects_by_type", "add_artifact_to_project"}
    THEN "projects"
    ELSE IF cmd \in {"get_library_index", "save_library_index", "get_artifact",
                     "save_artifact", "delete_artifact", "search_artifacts"}
    THEN "library"
    ELSE "learners"

\* The mastery or quick-check command last run, run instead on the data
\* directory f.
MasteryCommands ==
    {"get_learner_mastery", "save_objective_mastery", "save_learner_mastery",
     "get_quick_check_history", "save_quick_check_result"}

Rerun(f) ==
    CASE last.cmd = "get_learner_mastery" -> GetLearnerMastery(f, last.id)
      [] last.cmd = "save_objective_mastery" ->
             SaveObjectiveMastery(f, last.id, last.text, clock)
      [] last.cmd = "save_learner_mastery" ->
             SaveLearnerMastery(f, last.id, last.text)
      [] last.cmd = "get_quick_check_history" ->
             GetQuickCheckHistory(f, last.id, last.text.json)
      [] last.cmd = "save_quick_check_result" ->
             SaveQuickCheckResult(f, last.id, last.text)

\* The projects of f that list the artifact, the index entries of f that
\* carry the project.
ProjectsNaming(f, artifact_id) ==
    {q \in Range(LoadVec(f.projects)) :
        \E i \in 1..Len(q.arts) : q.arts[i] = artifact_id}

EntriesOf(f, project_id) ==
    {e \in Range(LibEntries(f)) : e.projectId = project_id}

\* C25: a command changes no file of a domain other than its own; after
\* delete_artifact the projects that listed the artifact still list it, after
\* delete_local_project the index entries of the project still carry its id;
\* a mastery or quick-check command leaves profiles.json as it was, gives the
\* result and the files it would give without profiles.json, and returns Ok
\* for a learner that has no profile whenever its input is accepted.
C25_DomainsIndependent ==
    /\ last.cmd # "none" =>
           \A d \in Domains \ {DomainOf(last.cmd)} :
               DomainFiles(fs, d) = DomainFiles(pre, d)
    /\ last.cmd = "delete_artifact" =>
           ProjectsNaming(fs, last.id) = ProjectsNaming(pre, last.id)
    /\ last.cmd = "delete_local_project" =>
           EntriesOf(fs, last.id) = EntriesOf(pre, last.id)
    /\ last.cmd \in MasteryCommands =>
           /\ fs.profiles = pre.profiles
           /\ \A profiles \in {Missing, Garbage} :
                  LET without == Rerun([pre EXCEPT !.profiles = profiles]) IN
                  /\ without.res = last.res
                  /\ without.fs.mastery = fs.mastery
                  /\ without.fs.checks = fs.checks
           /\ ( /\ ~HasId(LoadVec(pre.profiles), last.id)
                /\ Parses(last.text) \/ last.text = Unit
                /\ last.cmd = "save_objective_mastery" => last.text.json.id # NoId )
              => last.res.ok

\* delete_artifact has removed an artifact that a project still lists.
C25_DanglingArtifactId ==
    /\ last.cmd = "delete_artifact" /\ last.res.ok
    /\ Exists(pre.artifacts[last.id]) /\ ~Exists(fs.artifacts[last.id])
    /\ ProjectsNaming(fs, last.id) # {}

====
